---- MODULE Spec2Model ----
(***************************************************************************)
(* Model of the Sight API Go client (package sight, func RecognizeCfg) and *)
(* of the consumer loop that reads the returned channel.                   *)
(*                                                                         *)
(* One call of RecognizeCfg is modelled: the synchronous part that runs on *)
(* the caller's goroutine (MIME inference, file reads, request build, the  *)
(* initial POST and its classification), the background goroutine (the     *)
(* synchronous emission or the polling loop with its completion tracker),  *)
(* the buffered channel pagesChan, and a consumer that receives from it.   *)
(* The remote server, the file system and the HTTP transport are the       *)
(* environment: their answers are chosen nondeterministically.             *)
(*                                                                         *)
(* Spec is that program with a server that answers with few pages of any   *)
(* shape; LiveSpec adds the fairness of the scheduler; BurstSpec has a     *)
(* server that answers with many pages at once; MimeSpec runs the MIME     *)
(* inference of RecognizeCfg and of Recognize of src/main.go on one path.  *)
(***************************************************************************)
EXTENDS Integers, Sequences, FiniteSets, TLC

(***************************************************************************)
(* Bounds of the model (not program constants).                            *)
(***************************************************************************)
\* at most this many file paths are passed to RecognizeCfg
MaxFiles == 2
\* at most this many GET requests are issued by the polling loop
MaxPolls == 6
\* at most this many of them when some poll was answered with pages
MaxPagePolls == 2
\* at most this many pages are decoded, in total, from poll responses
MaxDecoded == 2
\* at most this many pages are decoded, in total, when the server answers in
\* bursts of one and the same page
MaxBurst == 17
\* at most this many GET requests are issued when the server answers in bursts
MaxBurstPolls == 2

(***************************************************************************)
(* Program constants.                                                      *)
(***************************************************************************)
\* pagesChan := make(chan RecognizedPage, 16)
ChanCapacity == 16
\* if errorCount >= 5 { close(pagesChan); return }
ErrorThreshold == 5

(***************************************************************************)
(* Values exchanged with the environment.                                  *)
(***************************************************************************)
\* status codes the server answers the initial POST with
InitialStatuses == {200, 401, 404, 500}
\* status codes the server answers a poll GET with
PollStatuses == {200, 401, 500}
\* a non-empty either.PollingURL that http.NewRequest accepts
PollingURL == "https://siftrics.com/api/sight/poll"
\* a non-empty either.PollingURL that http.NewRequest rejects
BadURL == "%zz"
\* opaque recognized text carried by a response
Texts == {"text"}

\* file paths handed to RecognizeCfg, as sequences of characters
Paths ==
    { <<"a", ".", "J", "p", "e", "g">>,
      <<"a", ".", "t", "x", "t">>,
      <<"p", "n", "g">> }

\* the upper-case letter of a lower-case letter of an extension
ToUpperChar(c) ==
    CASE c = "b" -> "B" [] c = "d" -> "D" [] c = "e" -> "E" [] c = "f" -> "F"
      [] c = "g" -> "G" [] c = "i" -> "I" [] c = "j" -> "J" [] c = "m" -> "M"
      [] c = "n" -> "N" [] c = "p" -> "P" [] c = "t" -> "T" [] c = "x" -> "X"
      [] OTHER -> c

\* the spellings of s in every mix of upper and lower case
RECURSIVE CaseVariants(_)
CaseVariants(s) ==
    IF s = << >> THEN { << >> }
    ELSE { <<c>> \o rest : c \in {Head(s), ToUpperChar(Head(s))},
                           rest \in CaseVariants(Tail(s)) }

\* the ends of the file names handed to the MIME inference: the six
\* extensions it knows, one it does not know, and one without its dot
Extensions ==
    { <<".", "b", "m", "p">>, <<".", "g", "i", "f">>, <<".", "p", "d", "f">>,
      <<".", "p", "n", "g">>, <<".", "j", "p", "g">>, <<".", "j", "p", "e", "g">>,
      <<".", "t", "x", "t">>, <<"j", "p", "e", "g">> }

\* what precedes the extension in a file name
Stems == { << >>, <<"a">> }

\* the file paths handed to the MIME inference alone
MimePaths ==
    { stem \o ext : stem \in Stems, ext \in UNION { CaseVariants(e) : e \in Extensions } }
    \cup { <<"p", "n", "g">> }

\* the <<PageNumber, NumberOfPagesInFile>> pairs the server reports: error
\* placeholders, the pages of one-page and two-page files, a page number
\* beyond the page count, a negative page count
PageShapes ==
    { <<0, 0>>, <<0, 1>>, <<1, 1>>, <<1, 2>>, <<2, 2>>, <<2, 1>>, <<0, -1>> }

\* the file indexes the server reports; with fewer than three submitted
\* files the larger ones belong to no submitted file
FileIndexes == {0, 1, 2}

\* type RecognizedPage struct, as the server may send it in a poll response
ServerPages ==
    { [ Error               |-> IF shape[1] <= 0 THEN "failed" ELSE "",
        FileIndex           |-> f,
        PageNumber          |-> shape[1],
        NumberOfPagesInFile |-> shape[2],
        RecognizedText      |-> t ] :
      f \in FileIndexes, shape \in PageShapes, t \in Texts }

\* what httpClient.Do hands back: transport tells whether it returned a nil
\* error; the other fields are those of the response when it did
Response(transport, status, decodable, body) ==
    [transport |-> transport, StatusCode |-> status, decodable |-> decodable,
     body |-> body]
\* no response has arrived
NoResponse == Response(FALSE, -1, FALSE, << >>)
TransportFailure == Response(FALSE, 0, FALSE, << >>)

\* the error values RecognizeCfg returns; status is 0 when the error carries none
Error(kind, status) == [kind |-> kind, status |-> status]
Nil == Error("nil", 0)

(***************************************************************************)
(* MIME inference, lines 238-260.                                          *)
(***************************************************************************)
\* strings.ToLower on the characters the paths use
ToLowerChar(c) ==
    CASE c = "A" -> "a" [] c = "B" -> "b" [] c = "D" -> "d" [] c = "E" -> "e"
      [] c = "F" -> "f" [] c = "G" -> "g" [] c = "I" -> "i" [] c = "J" -> "j"
      [] c = "M" -> "m" [] c = "N" -> "n" [] c = "P" -> "p" [] c = "T" -> "t"
      [] c = "X" -> "x" [] OTHER -> c

ToLower(s) == [k \in 1..Len(s) |-> ToLowerChar(s[k])]

\* fp[len(fp)-n : len(fp)]
Suffix(fp, n) == SubSeq(fp, Len(fp) - n + 1, Len(fp))

\* the MIME type inferred for fp, "" when the inference fails
InferMimeType(fp) ==
    IF Len(fp) < 4 THEN ""
    ELSE LET ext == ToLower(Suffix(fp, 4)) IN
         CASE ext = <<".", "b", "m", "p">> -> "image/bmp"
           [] ext = <<".", "g", "i", "f">> -> "image/gif"
           [] ext = <<".", "p", "d", "f">> -> "application/pdf"
           [] ext = <<".", "p", "n", "g">> -> "image/png"
           [] ext = <<".", "j", "p", "g">> -> "image/jpg"
           [] OTHER ->
                IF Len(fp) >= 5 /\ ToLower(Suffix(fp, 5)) = <<".", "j", "p", "e", "g">>
                THEN "image/jpeg"
                ELSE ""

\* Recognize of src/main.go, lines 86-108: the same switch on the suffix as
\* it is spelt, without strings.ToLower
InferMimeTypeMain(fp) ==
    IF Len(fp) < 4 THEN ""
    ELSE LET ext == Suffix(fp, 4) IN
         CASE ext = <<".", "b", "m", "p">> -> "image/bmp"
           [] ext = <<".", "g", "i", "f">> -> "image/gif"
           [] ext = <<".", "p", "d", "f">> -> "application/pdf"
           [] ext = <<".", "p", "n", "g">> -> "image/png"
           [] ext = <<".", "j", "p", "g">> -> "image/jpg"
           [] OTHER ->
                IF Len(fp) >= 5 /\ Suffix(fp, 5) = <<".", "j", "p", "e", "g">>
                THEN "image/jpeg"
                ELSE ""

\* the MIME inference of the function called
InferFor(function, fp) ==
    IF function = "RecognizeCfg" THEN InferMimeType(fp) ELSE InferMimeTypeMain(fp)

\* sr.Files after the MIME loop of the function called has run over fps
\* without failing, the file contents left out
Files(function, fps) ==
    [i \in 1..Len(fps) |-> [MimeType |-> InferFor(function, fps[i])]]

(***************************************************************************)
(* The completion tracker, lines 360-388: fileIndex2HaveSeenPage is a map  *)
(* from file index to a slice of booleans, modelled as a function whose    *)
(* domain is the set of keys present.                                      *)
(***************************************************************************)
\* mutant of NeedsAllocation: every observed page allocates anew
NeedsAllocationAlways(m, p) == TRUE

\* lines 361-362: !ok || len(haveSeenPage) == 0
NeedsAllocation(m, p) ==
    IF p.FileIndex \notin DOMAIN m THEN TRUE
    ELSE Len(m[p.FileIndex]) = 0

\* lines 361-364: the map after the (conditional) make([]bool, n, n);
\* defined when n >= 0
Allocate(m, p) ==
    IF NeedsAllocation(m, p)
    THEN [x \in DOMAIN m \cup {p.FileIndex} |->
            IF x = p.FileIndex
            THEN [k \in 1..p.NumberOfPagesInFile |-> FALSE]
            ELSE m[x]]
    ELSE m

\* lines 363 and 366: make with a negative length, or an index out of range,
\* is a run-time panic of the goroutine
ObserveFaults(m, p) ==
    IF NeedsAllocation(m, p) /\ p.NumberOfPagesInFile < 0 THEN TRUE
    ELSE IF p.PageNumber > 0
         THEN p.PageNumber - 1 >= Len(Allocate(m, p)[p.FileIndex])
         ELSE FALSE

\* mutant of Observe: the slot of the page is flipped instead of set
ObserveToggles(m, p) ==
    LET a == Allocate(m, p) IN
    IF p.PageNumber > 0
    THEN [a EXCEPT ![p.FileIndex][p.PageNumber] = ~a[p.FileIndex][p.PageNumber]]
    ELSE a

\* mutant of Observe: the slot of the page is not set
ObserveMarksNothing(m, p) == Allocate(m, p)

\* mutant of Observe: a page marks every page of its file as seen
ObserveMarksAll(m, p) ==
    LET a == Allocate(m, p) IN
    IF p.PageNumber > 0
    THEN [a EXCEPT ![p.FileIndex] = [k \in 1..Len(a[p.FileIndex]) |-> TRUE]]
    ELSE a

\* lines 361-367: the map after observing page p (when that does not panic)
Observe(m, p) ==
    LET a == Allocate(m, p) IN
    IF p.PageNumber > 0
    THEN [a EXCEPT ![p.FileIndex][p.PageNumber] = TRUE]
    ELSE a

\* mutant of HaveSeenAllPagesFrom: the scan stops one slot early
RECURSIVE HaveSeenAllPagesButLast(_, _)
HaveSeenAllPagesButLast(haveSeenPage, k) ==
    IF k >= Len(haveSeenPage) THEN TRUE
    ELSE IF ~haveSeenPage[k] THEN FALSE
    ELSE HaveSeenAllPagesButLast(haveSeenPage, k + 1)

\* mutant of HaveSeenAllPagesFrom: an empty sequence does not count as seen
RECURSIVE HaveSeenAllPagesNonEmpty(_, _)
HaveSeenAllPagesNonEmpty(haveSeenPage, k) ==
    IF Len(haveSeenPage) = 0 THEN FALSE
    ELSE IF k > Len(haveSeenPage) THEN TRUE
    ELSE IF ~haveSeenPage[k] THEN FALSE
    ELSE HaveSeenAllPagesNonEmpty(haveSeenPage, k + 1)

\* lines 377-383: scan haveSeenPage from slot k on, stop at the first false
RECURSIVE HaveSeenAllPagesFrom(_, _)
HaveSeenAllPagesFrom(haveSeenPage, k) ==
    IF k > Len(haveSeenPage) THEN TRUE
    ELSE IF ~haveSeenPage[k] THEN FALSE
    ELSE HaveSeenAllPagesFrom(haveSeenPage, k + 1)

\* mutant of HaveSeenEverythingFrom: a file index without a sequence is
\* skipped instead of ending the scan with false
RECURSIVE HaveSeenEverythingFromSkipMissing(_, _, _)
HaveSeenEverythingFromSkipMissing(m, fileIndex, n) ==
    IF fileIndex >= n THEN TRUE
    ELSE IF fileIndex \notin DOMAIN m
         THEN HaveSeenEverythingFromSkipMissing(m, fileIndex + 1, n)
    ELSE IF ~HaveSeenAllPagesFrom(m[fileIndex], 1) THEN FALSE
    ELSE HaveSeenEverythingFromSkipMissing(m, fileIndex + 1, n)

\* mutant of HaveSeenEverythingFrom: the scan goes one file index too far
RECURSIVE HaveSeenEverythingUpToN(_, _, _)
HaveSeenEverythingUpToN(m, fileIndex, n) ==
    IF fileIndex > n THEN TRUE
    ELSE IF fileIndex \notin DOMAIN m THEN FALSE
    ELSE IF ~HaveSeenAllPagesFrom(m[fileIndex], 1) THEN FALSE
    ELSE HaveSeenEverythingUpToN(m, fileIndex + 1, n)

\* lines 371-388: scan the file indexes from fileIndex up to n-1
RECURSIVE HaveSeenEverythingFrom(_, _, _)
HaveSeenEverythingFrom(m, fileIndex, n) ==
    IF fileIndex >= n THEN TRUE
    ELSE IF fileIndex \notin DOMAIN m THEN FALSE
    ELSE IF ~HaveSeenAllPagesFrom(m[fileIndex], 1) THEN FALSE
    ELSE HaveSeenEverythingFrom(m, fileIndex + 1, n)

\* lines 370-388: haveSeenEverything for len(filePaths) = n
HaveSeenEverything(m, n) == HaveSeenEverythingFrom(m, 0, n)

(***************************************************************************)
(* State.                                                                  *)
(***************************************************************************)
VARIABLES
    entry,          \* the function called: "RecognizeCfg", or "Recognize" of
                    \*   src/main.go
    filePaths,      \* the filePaths argument
    sr,             \* sr.Files, once the MIME loop has filled it in
    pc,             \* caller: "call", "post" (initial POST in flight), "returned"
    err,            \* the error RecognizeCfg returned (Nil: none)
    stream,         \* TRUE iff RecognizeCfg returned a non-nil channel
    postCount,      \* number of initial POST requests issued
    either,         \* the decoded body of the initial response
    resp,           \* the answer to the request in flight, once it has arrived
    gpc,            \* goroutine: "none", "start", "syncclose", "loop", "poll",
                    \*   "range", "done", "panic"
    fileIndex2HaveSeenPage,
    errorCount,
    pages,          \* the pages of the current batch not yet ranged over
    pagesChan,      \* the pages buffered in the channel
    closed,         \* the channel has been closed
    closeCalls,     \* number of close(pagesChan) calls executed
    received,       \* the pages the consumer has received, in order
    eos,            \* the consumer has observed end-of-stream (!isOpen)
    cliFileIndex2HaveSeenPage,
                    \* fileIndex2HaveSeenPage of the command-line consumer
    numFilesComplete,
                    \* numFilesComplete of the command-line consumer
    cliPanicked,    \* the command-line consumer's loop has panicked
    pollCount,      \* number of poll GET requests issued
    decoded,        \* concatenation of the successfully decoded poll batches
    consecFails     \* failed polls since the last successful poll

callerVars == <<entry, filePaths, sr, pc, err, stream, postCount, either>>
chanVars == <<pagesChan, closed, closeCalls>>
loopVars == <<fileIndex2HaveSeenPage, errorCount, pages>>
cliVars == <<cliFileIndex2HaveSeenPage, numFilesComplete, cliPanicked>>
consVars == <<received, eos, cliVars>>
histVars == <<pollCount, decoded, consecFails>>
vars == <<callerVars, resp, gpc, chanVars, loopVars, consVars, histVars>>

\* sequences over S of length at most n
RECURSIVE SeqsUpTo(_, _)
SeqsUpTo(S, n) ==
    IF n = 0 THEN { << >> }
    ELSE LET shorter == SeqsUpTo(S, n - 1) IN
         shorter \cup { Append(s, x) : s \in {t \in shorter : Len(t) = n - 1}, x \in S }

\* the state before the call, the function called and its argument apart
InitCall ==
    /\ sr = << >>
    /\ pc = "call"
    /\ err = Nil
    /\ stream = FALSE
    /\ postCount = 0
    /\ either = [PollingURL |-> "", RecognizedText |-> ""]
    /\ resp = NoResponse
    /\ gpc = "none"
    /\ fileIndex2HaveSeenPage = << >>
    /\ errorCount = 0
    /\ pages = << >>
    /\ pagesChan = << >>
    /\ closed = FALSE
    /\ closeCalls = 0
    /\ received = << >>
    /\ eos = FALSE
    /\ cliFileIndex2HaveSeenPage = << >>
    /\ numFilesComplete = 0
    /\ cliPanicked = FALSE
    /\ pollCount = 0
    /\ decoded = << >>
    /\ consecFails = 0

Init ==
    /\ entry = "RecognizeCfg"
    /\ filePaths \in SeqsUpTo(Paths, MaxFiles)
    /\ InitCall

(***************************************************************************)
(* RecognizeCfg on the caller's goroutine, lines 230-301 and 395.          *)
(***************************************************************************)
\* mutant of ReturnError: the channel is returned together with the error
ReturnErrorWithStream(e) ==
    /\ pc' = "returned"
    /\ err' = e
    /\ stream' = TRUE
    /\ UNCHANGED <<entry, filePaths, sr, postCount, either>>
    /\ UNCHANGED <<gpc, chanVars, loopVars, consVars, histVars>>

\* return nil, e
ReturnError(e) ==
    /\ pc' = "returned"
    /\ err' = e
    /\ stream' = FALSE
    /\ UNCHANGED <<entry, filePaths, sr, postCount, either>>
    /\ UNCHANGED <<gpc, chanVars, loopVars, consVars, histVars>>

\* lines 238-260: the MIME type of some path cannot be inferred
MimeFails ==
    /\ pc = "call"
    /\ \E i \in 1..Len(filePaths) : InferMimeType(filePaths[i]) = ""
    /\ ReturnError(Error("mime", 0))
    /\ UNCHANGED resp

\* lines 261-267: every MIME type was inferred, ioutil.ReadFile fails on a file
ReadFails ==
    /\ pc = "call"
    /\ \A i \in 1..Len(filePaths) : InferMimeType(filePaths[i]) # ""
    /\ Len(filePaths) > 0
    /\ ReturnError(Error("read", 0))
    /\ UNCHANGED resp

\* mutant of SendInitial: the request is sent although a MIME type is missing
SendInitialUnchecked ==
    /\ pc = "call"
    /\ pc' = "post"
    /\ postCount' = postCount + 1
    /\ sr' = Files(entry, filePaths)
    /\ UNCHANGED <<entry, filePaths, err, stream, either, resp>>
    /\ UNCHANGED <<gpc, chanVars, loopVars, consVars, histVars>>

\* lines 268-279: every file was read; the initial POST is sent and the caller
\* blocks in httpClient.Do.  json.Marshal of a SightRequest and http.NewRequest
\* with the constant method and URL do not fail, so the returns of lines 270
\* and 274 are never taken.
SendInitial ==
    /\ pc = "call"
    /\ \A i \in 1..Len(filePaths) : InferMimeType(filePaths[i]) # ""
    /\ pc' = "post"
    /\ postCount' = postCount + 1
    /\ sr' = Files(entry, filePaths)
    /\ UNCHANGED <<entry, filePaths, err, stream, either, resp>>
    /\ UNCHANGED <<gpc, chanVars, loopVars, consVars, histVars>>

\* the bodies of a decodable initial response
InitialBodies ==
    { [PollingURL |-> url, RecognizedText |-> text] :
      url \in {"", PollingURL, BadURL}, text \in Texts }

\* what the environment may answer the initial POST with
InitialResponses ==
    {TransportFailure}
    \cup { Response(TRUE, status, FALSE, << >>) : status \in InitialStatuses }
    \cup { Response(TRUE, 200, TRUE, body) : body \in InitialBodies }

\* the transport hands the answer to the initial POST to httpClient.Do
InitialAnswer ==
    /\ pc = "post"
    /\ resp = NoResponse
    /\ resp' \in InitialResponses
    /\ UNCHANGED <<callerVars, gpc, chanVars, loopVars, consVars, histVars>>

\* mutant of InitialError: the test for status 401 is missing
InitialErrorNo401(r) ==
    IF ~r.transport THEN Error("transport", 0)
    ELSE IF r.StatusCode # 200 THEN Error("non200", r.StatusCode)
    ELSE IF ~r.decodable THEN Error("decode", 0)
    ELSE Nil

\* lines 280-299: the error the initial exchange is classified as, Nil for a
\* decodable 200
InitialError(r) ==
    IF ~r.transport THEN Error("transport", 0)
    ELSE IF r.StatusCode = 401 THEN Error("unauthorized", 0)
    ELSE IF r.StatusCode # 200 THEN Error("non200", r.StatusCode)
    ELSE IF ~r.decodable THEN Error("decode", 0)
    ELSE Nil

\* lines 301-302 and 395: the channel is made, the goroutine is started and
\* the channel is returned
ReturnStream ==
    /\ either' = resp.body
    /\ pc' = "returned"
    /\ err' = Nil
    /\ stream' = TRUE
    /\ gpc' = "start"
    /\ UNCHANGED <<entry, filePaths, sr, postCount>>
    /\ UNCHANGED <<chanVars, loopVars, consVars, histVars>>

\* lines 279-302 and 395: httpClient.Do returns and the caller handles the
\* initial exchange
InitialResponse ==
    /\ pc = "post"
    /\ resp # NoResponse
    /\ resp' = NoResponse
    /\ IF InitialError(resp) # Nil
       THEN ReturnError(InitialError(resp))
       ELSE ReturnStream

(***************************************************************************)
(* The goroutine, lines 302-394.                                           *)
(***************************************************************************)
\* close(pagesChan), then continue at next; closing a closed channel panics
CloseAnd(next) ==
    /\ closeCalls' = closeCalls + 1
    /\ pagesChan' = pagesChan
    /\ IF closed
       THEN closed' = closed /\ gpc' = "panic"
       ELSE closed' = TRUE /\ gpc' = next

\* mutant of SyncPage: the page is attributed to the last submitted file
SyncPageLastFile ==
    [ Error               |-> "",
      FileIndex           |-> Len(filePaths) - 1,
      PageNumber          |-> 1,
      NumberOfPagesInFile |-> 1,
      RecognizedText      |-> either.RecognizedText ]

\* lines 304-311: the page emitted in synchronous mode
SyncPage ==
    [ Error               |-> "",
      FileIndex           |-> 0,
      PageNumber          |-> 1,
      NumberOfPagesInFile |-> 1,
      RecognizedText      |-> either.RecognizedText ]

\* lines 303-311: no polling URL, the single page is sent
SyncPush ==
    /\ gpc = "start"
    /\ either.PollingURL = ""
    /\ Len(pagesChan) < ChanCapacity
    /\ pagesChan' = Append(pagesChan, SyncPage)
    /\ gpc' = "syncclose"
    /\ UNCHANGED <<closed, closeCalls>>
    /\ UNCHANGED <<callerVars, resp, loopVars, consVars, histVars>>

\* lines 312-313: close(pagesChan); return
SyncClose ==
    /\ gpc = "syncclose"
    /\ CloseAnd("done")
    /\ UNCHANGED <<callerVars, resp, loopVars, consVars, histVars>>

\* lines 315-317: a polling URL was returned, the loop is entered
EnterLoop ==
    /\ gpc = "start"
    /\ either.PollingURL # ""
    /\ fileIndex2HaveSeenPage' = << >>
    /\ errorCount' = 0
    /\ gpc' = "loop"
    /\ UNCHANGED pages
    /\ UNCHANGED <<callerVars, resp, chanVars, consVars, histVars>>

\* mutant of ThresholdReached: the loop gives up one error early
ThresholdReachedEarly(n) == n >= ErrorThreshold - 1

\* the threshold test of lines 322, 333, 343 and 354
ThresholdReached(n) == n >= ErrorThreshold

\* if errorCount >= 5 { close(pagesChan); return }; continue
GiveUpOrContinue ==
    IF ThresholdReached(errorCount')
    THEN CloseAnd("done")
    ELSE gpc' = "loop" /\ UNCHANGED chanVars

\* mutant of CountError: a counted failure also forgets the pages seen
CountErrorForgets ==
    /\ errorCount' = errorCount + 1
    /\ GiveUpOrContinue
    /\ fileIndex2HaveSeenPage' = << >>
    /\ UNCHANGED pages

\* lines 321-326, 332-337 and 353-358: errorCount++, then the threshold test
CountError ==
    /\ errorCount' = errorCount + 1
    /\ GiveUpOrContinue
    /\ UNCHANGED <<fileIndex2HaveSeenPage, pages>>

\* lines 318-327: after the sleep, http.NewRequest rejects the polling URL
PollBuildFails ==
    /\ gpc = "loop"
    /\ either.PollingURL = BadURL
    /\ CountError
    /\ consecFails' = consecFails + 1
    /\ UNCHANGED <<pollCount, decoded>>
    /\ UNCHANGED <<callerVars, resp, consVars>>

\* mutant of PollSend: the next GET is sent while the pages of the previous
\* answer are still being ranged over
PollSendEarly ==
    /\ gpc \in {"loop", "range"}
    /\ either.PollingURL # BadURL
    /\ pollCount < (IF decoded = << >> THEN MaxPolls ELSE MaxPagePolls)
    /\ pollCount' = pollCount + 1
    /\ gpc' = "poll"
    /\ UNCHANGED <<decoded, consecFails>>
    /\ UNCHANGED <<callerVars, resp, chanVars, loopVars, consVars>>

\* lines 318-330: after the sleep, the GET request is sent, as long as fewer
\* than limit have been
PollSendUpTo(limit) ==
    /\ gpc = "loop"
    /\ either.PollingURL # BadURL
    /\ pollCount < limit
    /\ pollCount' = pollCount + 1
    /\ gpc' = "poll"
    /\ UNCHANGED <<decoded, consecFails>>
    /\ UNCHANGED <<callerVars, resp, chanVars, loopVars, consVars>>

PollSend == PollSendUpTo(IF decoded = << >> THEN MaxPolls ELSE MaxPagePolls)

\* the poll batches of pages of universe the server may still answer with
BatchesOf(universe) ==
    IF pollCount <= MaxPagePolls
    THEN SeqsUpTo(universe, MaxDecoded - Len(decoded))
    ELSE { << >> }

Batches == BatchesOf(ServerPages)

\* what the environment may answer a poll GET with, the decodable answers
\* carrying one of batches
PollResponsesWith(batches) ==
    {TransportFailure}
    \cup { Response(TRUE, status, FALSE, << >>) : status \in PollStatuses }
    \cup { Response(TRUE, 200, TRUE, batch) : batch \in batches }

PollResponses == PollResponsesWith(Batches)

\* the transport hands the answer to the poll GET, one of responses, to
\* httpClient.Do
PollAnswerFrom(responses) ==
    /\ gpc = "poll"
    /\ resp = NoResponse
    /\ resp' \in responses
    /\ UNCHANGED <<callerVars, gpc, chanVars, loopVars, consVars, histVars>>

PollAnswer == PollAnswerFrom(PollResponses)

\* lines 331-338: httpClient.Do returned an error
OnTransportError == CountError

\* mutant of On401: the return after close(pagesChan) is missing
On401NoReturn ==
    /\ CloseAnd("loop")
    /\ UNCHANGED loopVars

\* mutant of On401: status 401 is counted like any other failed poll
On401Counted == CountError

\* mutant of On401: the failure is reported by a page made up for it
On401WithErrorPage ==
    /\ closeCalls' = closeCalls + 1
    /\ pagesChan' = Append(pagesChan, [ Error               |-> "unauthorized",
                                       FileIndex           |-> 0,
                                       PageNumber          |-> 0,
                                       NumberOfPagesInFile |-> 0,
                                       RecognizedText      |-> "" ])
    /\ closed' = TRUE
    /\ gpc' = "done"
    /\ UNCHANGED loopVars

\* lines 339-341: status 401
On401 ==
    /\ CloseAnd("done")
    /\ UNCHANGED loopVars

\* lines 342-348: a status that is neither 200 nor 401
OnNon200 ==
    /\ UNCHANGED errorCount
    /\ GiveUpOrContinue
    /\ UNCHANGED <<fileIndex2HaveSeenPage, pages>>

\* lines 352-359: status 200, the body cannot be decoded
OnDecodeError == CountError

\* mutant of OnPages: the batch is ranged over from its last page to its first
OnPagesReversed ==
    /\ pages' = [k \in 1..Len(resp.body) |-> resp.body[Len(resp.body) + 1 - k]]
    /\ gpc' = "range"
    /\ UNCHANGED <<fileIndex2HaveSeenPage, errorCount, chanVars>>

\* lines 349-360: status 200, the body decodes; the range loop starts
OnPages ==
    /\ pages' = resp.body
    /\ gpc' = "range"
    /\ UNCHANGED <<fileIndex2HaveSeenPage, errorCount, chanVars>>

\* a successful poll: status 200 with a decodable body
PollSucceeded(r) == r.transport /\ r.StatusCode = 200 /\ r.decodable

\* lines 330-360: httpClient.Do returns and the loop handles the poll
HandlePoll ==
    /\ gpc = "poll"
    /\ resp # NoResponse
    /\ resp' = NoResponse
    /\ IF ~resp.transport THEN OnTransportError
       ELSE IF resp.StatusCode = 401 THEN On401
       ELSE IF resp.StatusCode # 200 THEN OnNon200
       ELSE IF ~resp.decodable THEN OnDecodeError
       ELSE OnPages
    /\ consecFails' = IF PollSucceeded(resp) THEN 0 ELSE consecFails + 1
    /\ decoded' = IF PollSucceeded(resp) THEN decoded \o resp.body ELSE decoded
    /\ UNCHANGED pollCount
    /\ UNCHANGED <<callerVars, consVars>>

\* mutant of RangePage: the send does not wait for room in the channel
RangePageUnbounded ==
    /\ gpc = "range"
    /\ pages # << >>
    /\ ~ObserveFaults(fileIndex2HaveSeenPage, Head(pages))
    /\ fileIndex2HaveSeenPage' = Observe(fileIndex2HaveSeenPage, Head(pages))
    /\ IF closed
       THEN gpc' = "panic" /\ UNCHANGED <<pages, chanVars>>
       ELSE /\ pagesChan' = Append(pagesChan, Head(pages))
            /\ pages' = Tail(pages)
            /\ UNCHANGED <<gpc, closed, closeCalls>>
    /\ UNCHANGED errorCount
    /\ UNCHANGED <<callerVars, resp, consVars, histVars>>

\* lines 360-369, one iteration: the page is observed and sent; the send
\* blocks while the channel is full, and panics on a closed channel
RangePage ==
    /\ gpc = "range"
    /\ pages # << >>
    /\ ~ObserveFaults(fileIndex2HaveSeenPage, Head(pages))
    /\ fileIndex2HaveSeenPage' = Observe(fileIndex2HaveSeenPage, Head(pages))
    /\ IF closed
       THEN gpc' = "panic" /\ UNCHANGED <<pages, chanVars>>
       ELSE /\ Len(pagesChan) < ChanCapacity
            /\ pagesChan' = Append(pagesChan, Head(pages))
            /\ pages' = Tail(pages)
            /\ UNCHANGED <<gpc, closed, closeCalls>>
    /\ UNCHANGED errorCount
    /\ UNCHANGED <<callerVars, resp, consVars, histVars>>

\* lines 363 and 366: observing the page panics; an unrecovered panic of a
\* goroutine ends the process
RangePanics ==
    /\ gpc = "range"
    /\ pages # << >>
    /\ ObserveFaults(fileIndex2HaveSeenPage, Head(pages))
    /\ gpc' = "panic"
    /\ UNCHANGED <<callerVars, resp, chanVars, loopVars, consVars, histVars>>

\* mutant of CheckComplete: the check empties the tracker it has scanned
CheckCompleteClearing ==
    /\ gpc = "range"
    /\ pages = << >>
    /\ IF HaveSeenEverything(fileIndex2HaveSeenPage, Len(filePaths))
       THEN CloseAnd("done")
       ELSE gpc' = "loop" /\ UNCHANGED chanVars
    /\ fileIndex2HaveSeenPage' = << >>
    /\ UNCHANGED <<errorCount, pages>>
    /\ UNCHANGED <<callerVars, resp, consVars, histVars>>

\* lines 370-392: after the range loop, the completion check
CheckComplete ==
    /\ gpc = "range"
    /\ pages = << >>
    /\ IF HaveSeenEverything(fileIndex2HaveSeenPage, Len(filePaths))
       THEN CloseAnd("done")
       ELSE gpc' = "loop" /\ UNCHANGED chanVars
    /\ UNCHANGED <<callerVars, resp, loopVars, consVars, histVars>>

(***************************************************************************)
(* The consumer of the returned channel: page, isOpen := <-pagesChan.      *)
(***************************************************************************)
\* a buffered page is received
Receive ==
    /\ stream
    /\ gpc # "panic"
    /\ pagesChan # << >>
    /\ received' = Append(received, Head(pagesChan))
    /\ pagesChan' = Tail(pagesChan)
    /\ UNCHANGED <<closed, closeCalls, eos, cliVars>>
    /\ UNCHANGED <<callerVars, resp, gpc, loopVars, histVars>>

\* the channel is closed and drained: the receive yields isOpen = false
ReceiveClosed ==
    /\ stream
    /\ gpc # "panic"
    /\ pagesChan = << >>
    /\ closed
    /\ ~eos
    /\ eos' = TRUE
    /\ UNCHANGED <<received, cliVars>>
    /\ UNCHANGED <<callerVars, resp, gpc, chanVars, loopVars, histVars>>

Next ==
    \/ MimeFails
    \/ ReadFails
    \/ SendInitial
    \/ InitialAnswer
    \/ InitialResponse
    \/ SyncPush
    \/ SyncClose
    \/ EnterLoop
    \/ PollBuildFails
    \/ PollSend
    \/ PollAnswer
    \/ HandlePoll
    \/ RangePage
    \/ RangePanics
    \/ CheckComplete
    \/ Receive
    \/ ReceiveClosed

Spec == Init /\ [][Next]_vars

(***************************************************************************)
(* Scheduling.  The Go scheduler runs a goroutine that can take a step:    *)
(* the goroutine started by RecognizeCfg is weakly fair, and so is a       *)
(* consumer that keeps receiving.  The transport and the server are not:   *)
(* an answer may never come.                                               *)
(***************************************************************************)
\* the steps of the goroutine of lines 302-394
GoroutineStep ==
    \/ SyncPush
    \/ SyncClose
    \/ EnterLoop
    \/ PollBuildFails
    \/ PollSend
    \/ HandlePoll
    \/ RangePage
    \/ RangePanics
    \/ CheckComplete

\* the steps of the consumer
ConsumerStep == Receive \/ ReceiveClosed

\* the pages of a server that knows two files of one or two pages: real
\* pages and placeholders, page counts that may disagree within a file
LivePages ==
    { p \in ServerPages :
        /\ p.FileIndex \in {0, 1}
        /\ <<p.PageNumber, p.NumberOfPagesInFile>> \in
             { <<0, 1>>, <<1, 1>>, <<1, 2>>, <<2, 2>> } }

LivePollAnswer == PollAnswerFrom(PollResponsesWith(BatchesOf(LivePages)))

LiveNext ==
    \/ MimeFails
    \/ ReadFails
    \/ SendInitial
    \/ InitialAnswer
    \/ InitialResponse
    \/ SyncPush
    \/ SyncClose
    \/ EnterLoop
    \/ PollBuildFails
    \/ PollSend
    \/ LivePollAnswer
    \/ HandlePoll
    \/ RangePage
    \/ RangePanics
    \/ CheckComplete
    \/ Receive
    \/ ReceiveClosed

LiveSpec ==
    Init /\ [][LiveNext]_vars /\ WF_vars(GoroutineStep) /\ WF_vars(ConsumerStep)

(***************************************************************************)
(* The same program with a server that answers in bursts: a poll is        *)
(* answered with a status 500 or with any number of copies of page 1 of 2  *)
(* of file 0, so that the channel fills up.  This server sends no page     *)
(* whose observation panics.                                               *)
(***************************************************************************)
BurstPage ==
    [ Error               |-> "",
      FileIndex           |-> 0,
      PageNumber          |-> 1,
      NumberOfPagesInFile |-> 2,
      RecognizedText      |-> "text" ]

BurstResponses ==
    { Response(TRUE, 500, FALSE, << >>) }
    \cup { Response(TRUE, 200, TRUE, [k \in 1..n |-> BurstPage]) :
             n \in 0..(MaxBurst - Len(decoded)) }

BurstInit ==
    /\ entry = "RecognizeCfg"
    /\ filePaths \in SeqsUpTo(Paths, 1)
    /\ InitCall

BurstPollSend == PollSendUpTo(MaxBurstPolls)

BurstPollAnswer == PollAnswerFrom(BurstResponses)

BurstNext ==
    \/ MimeFails
    \/ ReadFails
    \/ SendInitial
    \/ InitialAnswer
    \/ InitialResponse
    \/ SyncPush
    \/ SyncClose
    \/ EnterLoop
    \/ PollBuildFails
    \/ BurstPollSend
    \/ BurstPollAnswer
    \/ HandlePoll
    \/ RangePage
    \/ CheckComplete
    \/ Receive
    \/ ReceiveClosed

BurstSpec == BurstInit /\ [][BurstNext]_vars

(***************************************************************************)
(* The MIME inference alone: one path is handed to either function and the *)
(* loop over the paths runs, up to the read loop or to the error return.   *)
(***************************************************************************)
MimeInit ==
    /\ entry \in {"RecognizeCfg", "Recognize"}
    /\ filePaths \in { <<fp>> : fp \in MimePaths }
    /\ InitCall

\* the loop over filePaths of the function called: the first failure returns
\* the error, otherwise sr.Files is filled in
MimeLoop ==
    /\ pc = "call"
    /\ IF \E i \in 1..Len(filePaths) : InferFor(entry, filePaths[i]) = ""
       THEN ReturnError(Error("mime", 0))
       ELSE /\ sr' = Files(entry, filePaths)
            /\ pc' = "read"
            /\ UNCHANGED <<entry, filePaths, err, stream, postCount, either>>
            /\ UNCHANGED <<gpc, chanVars, loopVars, consVars, histVars>>
    /\ UNCHANGED resp

\* src/unnamed/part_000, lines 238-260
RecognizeCfgMime == entry = "RecognizeCfg" /\ MimeLoop

\* src/main.go, lines 86-108
RecognizeMime == entry = "Recognize" /\ MimeLoop

MimeNext == RecognizeCfgMime \/ RecognizeMime

MimeSpec == MimeInit /\ [][MimeNext]_vars

(***************************************************************************)
(* The command-line program, src/cli/main.go lines 218-298 (and main of    *)
(* src/main.go, lines 365-409): it calls RecognizeCfg with at least one    *)
(* input file and receives from the channel, keeping a tracker of its own  *)
(* and the counter numFilesComplete.  A panic of its loop ends the         *)
(* process, the goroutine of the library included.                         *)
(***************************************************************************)
\* lines 279-280: !ok
CliNeedsAllocation(m, page) == page.FileIndex \notin DOMAIN m

\* lines 279-282: the map after the (conditional) make([]bool, n, n);
\* defined when n >= 0
CliAllocate(m, page) ==
    IF CliNeedsAllocation(m, page)
    THEN [x \in DOMAIN m \cup {page.FileIndex} |->
            IF x = page.FileIndex
            THEN [k \in 1..page.NumberOfPagesInFile |-> FALSE]
            ELSE m[x]]
    ELSE m

\* lines 281 and 284: make with a negative length, or an index out of range,
\* is a run-time panic
CliObserveFaults(m, page) ==
    IF CliNeedsAllocation(m, page) /\ page.NumberOfPagesInFile < 0 THEN TRUE
    ELSE IF page.PageNumber > 0
         THEN page.PageNumber - 1 >= Len(CliAllocate(m, page)[page.FileIndex])
         ELSE FALSE

\* lines 279-285: the map after the page (when that does not panic)
CliObserve(m, page) ==
    LET a == CliAllocate(m, page) IN
    IF page.PageNumber > 0
    THEN [a EXCEPT ![page.FileIndex][page.PageNumber] = TRUE]
    ELSE a

\* lines 286-292: seenAllPages for the sequence of the page's file
SeenAllPages(haveSeenPage) == \A k \in 1..Len(haveSeenPage) : haveSeenPage[k]

\* lines 228-296, one iteration with isOpen true: the page is received,
\* marked in the consumer's tracker and counted
CliReceive ==
    /\ stream
    /\ gpc # "panic"
    /\ ~cliPanicked
    /\ pagesChan # << >>
    /\ received' = Append(received, Head(pagesChan))
    /\ pagesChan' = Tail(pagesChan)
    /\ IF CliObserveFaults(cliFileIndex2HaveSeenPage, Head(pagesChan))
       THEN /\ cliPanicked' = TRUE
            /\ UNCHANGED <<cliFileIndex2HaveSeenPage, numFilesComplete>>
       ELSE /\ cliFileIndex2HaveSeenPage' =
                 CliObserve(cliFileIndex2HaveSeenPage, Head(pagesChan))
            /\ numFilesComplete' =
                 IF SeenAllPages(cliFileIndex2HaveSeenPage'[Head(pagesChan).FileIndex])
                 THEN numFilesComplete + 1
                 ELSE numFilesComplete
            /\ UNCHANGED cliPanicked
    /\ UNCHANGED <<closed, closeCalls, eos>>
    /\ UNCHANGED <<callerVars, resp, gpc, loopVars, histVars>>

\* lines 228-231: isOpen is false, the loop ends
CliReceiveClosed == ~cliPanicked /\ ReceiveClosed

\* src/cli/main.go lines 170-173: no input file, the program exits before
\* the call
CliInit ==
    /\ entry = "RecognizeCfg"
    /\ filePaths \in SeqsUpTo(Paths, MaxFiles) \ { << >> }
    /\ InitCall

\* the steps of the library while the process lives, and of the consumer
CliNext ==
    \/ ~cliPanicked /\ MimeFails
    \/ ~cliPanicked /\ ReadFails
    \/ ~cliPanicked /\ SendInitial
    \/ ~cliPanicked /\ InitialAnswer
    \/ ~cliPanicked /\ InitialResponse
    \/ ~cliPanicked /\ SyncPush
    \/ ~cliPanicked /\ SyncClose
    \/ ~cliPanicked /\ EnterLoop
    \/ ~cliPanicked /\ PollBuildFails
    \/ ~cliPanicked /\ PollSend
    \/ ~cliPanicked /\ PollAnswer
    \/ ~cliPanicked /\ HandlePoll
    \/ ~cliPanicked /\ RangePage
    \/ ~cliPanicked /\ RangePanics
    \/ ~cliPanicked /\ CheckComplete
    \/ CliReceive
    \/ CliReceiveClosed

CliSpec == CliInit /\ [][CliNext]_vars

(***************************************************************************)
(* Vocabulary of the properties.                                           *)
(***************************************************************************)
\* asynchronous mode: a stream was returned and the initial response carried
\* a polling URL
Async == stream /\ either.PollingURL # ""

\* synchronous mode: a stream was returned and the initial response carried
\* no polling URL
Sync == stream /\ either.PollingURL = ""

\* every page ever sent on the channel, in order
Pushed == received \o pagesChan

\* every file index in [0, n) has a boolean sequence in m whose entries are
\* all true
AllFilesComplete(m, n) ==
    \A f \in 0..(n - 1) :
        IF f \in DOMAIN m THEN \A k \in 1..Len(m[f]) : m[f][k] ELSE FALSE

\* the goroutine is handling the answer to a poll in this step
HandlingPoll == gpc = "poll" /\ resp # NoResponse /\ resp' = NoResponse

\* the caller is handling the answer to the initial POST in this step
HandlingInitial == pc = "post" /\ resp # NoResponse /\ resp' = NoResponse

\* an error placeholder: not a real page of a file
IsPlaceholder(p) == p.PageNumber <= 0

\* no slot that is true in the tracker after the step was false or absent
\* before it
NoSlotFlipped ==
    \A f \in DOMAIN fileIndex2HaveSeenPage' :
      \A k \in 1..Len(fileIndex2HaveSeenPage'[f]) :
        fileIndex2HaveSeenPage'[f][k] =>
          IF f \in DOMAIN fileIndex2HaveSeenPage
          THEN IF k <= Len(fileIndex2HaveSeenPage[f])
               THEN fileIndex2HaveSeenPage[f][k]
               ELSE FALSE
          ELSE FALSE

\* s is an initial segment of t
IsPrefix(s, t) == Len(s) <= Len(t) /\ s = SubSeq(t, 1, Len(s))

\* the completion check runs in this step: the range loop is over
CheckingCompletion == gpc = "range" /\ pages = << >> /\ gpc' # gpc

\* a page of file f numbered k is among the pages of sequence s
HasPage(s, f, k) ==
    \E i \in 1..Len(s) : s[i].FileIndex = f /\ s[i].PageNumber = k

\* the page count sequence s declares for file f: that of its first page of f
DeclaredPages(s, f) ==
    LET i == CHOOSE i \in 1..Len(s) :
                 s[i].FileIndex = f /\ \A j \in 1..(i - 1) : s[j].FileIndex # f
    IN  s[i].NumberOfPagesInFile

\* every page of s is a page k of n of one of the first total files, without
\* error, with one page count per file, and no page occurs twice
EachPageAtMostOnce(s, total) ==
    /\ \A i \in 1..Len(s) :
         /\ s[i].FileIndex \in 0..(total - 1)
         /\ s[i].Error = ""
         /\ s[i].PageNumber \in 1..s[i].NumberOfPagesInFile
         /\ s[i].NumberOfPagesInFile = DeclaredPages(s, s[i].FileIndex)
    /\ \A i, j \in 1..Len(s) :
         (s[i].FileIndex = s[j].FileIndex /\ s[i].PageNumber = s[j].PageNumber)
           => i = j

\* s holds every page 1..n of each of the first total files
HasEveryPage(s, total) ==
    \A f \in 0..(total - 1) :
      /\ \E i \in 1..Len(s) : s[i].FileIndex = f
      /\ \A k \in 1..DeclaredPages(s, f) : HasPage(s, f, k)

\* the sum of the page counts s declares for the file indexes f..total-1
RECURSIVE SumOfDeclaredPages(_, _, _)
SumOfDeclaredPages(s, f, total) ==
    IF f >= total THEN 0
    ELSE DeclaredPages(s, f) + SumOfDeclaredPages(s, f + 1, total)

\* the extensions the MIME inference knows, with the type of each
MimeTable ==
    { << <<".", "b", "m", "p">>, "image/bmp" >>,
      << <<".", "g", "i", "f">>, "image/gif" >>,
      << <<".", "p", "d", "f">>, "application/pdf" >>,
      << <<".", "p", "n", "g">>, "image/png" >>,
      << <<".", "j", "p", "g">>, "image/jpg" >>,
      << <<".", "j", "p", "e", "g">>, "image/jpeg" >> }

\* fp ends in ext, the case of the letters aside
EndsWithFold(fp, ext) ==
    /\ Len(fp) >= Len(ext)
    /\ \A k \in 1..Len(ext) : ToLowerChar(fp[Len(fp) - Len(ext) + k]) = ext[k]

\* the type the table gives to fp, "" when fp ends in none of its extensions
TableMimeType(fp) ==
    IF \E e \in MimeTable : EndsWithFold(fp, e[1])
    THEN (CHOOSE e \in MimeTable : EndsWithFold(fp, e[1]))[2]
    ELSE ""

\* every page of s is a page k of n or a placeholder of a file of n pages,
\* with one n per file index
ConsistentPages(s) ==
    \A i \in 1..Len(s) :
      /\ s[i].PageNumber \in 0..s[i].NumberOfPagesInFile
      /\ s[i].NumberOfPagesInFile = DeclaredPages(s, s[i].FileIndex)

\* every poll so far has succeeded, and the answers handled so far hold
\* every page 1..n of every submitted file, n consistent per file
ServerReturnedEverything ==
    /\ Async
    /\ pollCount > 0
    /\ gpc # "poll"
    /\ errorCount = 0
    /\ consecFails = 0
    /\ ConsistentPages(decoded)
    /\ HasEveryPage(decoded, Len(filePaths))

\* the goroutine observes the page at the head of the batch in this step
Observing == gpc = "range" /\ pages # << >> /\ pages' = Tail(pages)

\* file index f has a boolean sequence in m and every entry of it is true
FileComplete(m, f) ==
    IF f \in DOMAIN m THEN \A k \in 1..Len(m[f]) : m[f][k] ELSE FALSE

\* file index f has a non-empty boolean sequence in m
HasSlots(m, f) == IF f \in DOMAIN m THEN Len(m[f]) > 0 ELSE FALSE

\* every slot that is true in m is a slot of n and true in n
SlotsKept(m, n) ==
    \A f \in DOMAIN m :
      \A k \in 1..Len(m[f]) :
        m[f][k] => IF f \in DOMAIN n
                   THEN IF k <= Len(n[f]) THEN n[f][k] ELSE FALSE
                   ELSE FALSE

\* the positions of the pages of file index f in s
PagesOf(s, f) == { k \in 1..Len(s) : s[k].FileIndex = f }

\* s has pages of file index f, and all of them are error placeholders
OnlyPlaceholders(s, f) ==
    /\ PagesOf(s, f) # {}
    /\ \A k \in PagesOf(s, f) : IsPlaceholder(s[k])

\* the completion check counts file index f as complete: lines 372-385 for
\* one file index
CountedComplete(m, f) ==
    IF f \in DOMAIN m THEN HaveSeenAllPagesFrom(m[f], 1) ELSE FALSE

\* the first page of file index f in s
FirstOf(s, f) == s[CHOOSE k \in PagesOf(s, f) : \A j \in PagesOf(s, f) : k <= j]

\* the tracker m without the sequences of file indexes outside [0, n)
Restrict(m, n) == [f \in DOMAIN m \cap (0..(n - 1)) |-> m[f]]

\* the tracker of the library after it has observed the pages of s in order
RECURSIVE TrackerAfter(_)
TrackerAfter(s) ==
    IF s = << >> THEN << >>
    ELSE Observe(TrackerAfter(SubSeq(s, 1, Len(s) - 1)), s[Len(s)])

\* the paths for which the MIME inference of RecognizeCfg finds no type
UnknownTypePaths == { fp \in Paths : InferMimeType(fp) = "" }

\* the goroutine is at the send of the page it has observed and the channel
\* is full
ProducerBlocked ==
    /\ gpc = "range"
    /\ pages # << >>
    /\ ~ObserveFaults(fileIndex2HaveSeenPage, Head(pages))
    /\ ~closed
    /\ Len(pagesChan) = ChanCapacity

(***************************************************************************)
(* C1: RecognizeCfg returns either a stream and no error, or no stream and *)
(* an error.  An error is returned only for a failure up to and including  *)
(* the initial exchange, and then no channel has been used, no goroutine   *)
(* was started and no poll is ever sent; once a stream has been returned   *)
(* (the goroutine exists), the returned error stays nil whatever fails     *)
(* later.                                                                  *)
(***************************************************************************)
C1_StreamXorError ==
    /\ pc = "returned" => ((err = Nil) <=> stream)
    /\ pc # "returned" => (err = Nil /\ ~stream)
    /\ err # Nil =>
         /\ err.kind \in {"mime", "read", "transport", "unauthorized", "non200", "decode"}
         /\ ~stream
         /\ gpc = "none"
         /\ Pushed = << >>
         /\ closeCalls = 0
         /\ pollCount = 0
    /\ gpc # "none" => (stream /\ err = Nil)

\* a stream was returned, the polling loop then gave up after 5 errors, and
\* the returned error is still nil
C1_Witness ==
    /\ Async
    /\ err = Nil
    /\ closed
    /\ errorCount >= ErrorThreshold

(***************************************************************************)
(* C2: the initial response is classified terminally: status 401 yields an *)
(* Unauthorized error, any other status different from 200 a server error  *)
(* carrying the status, status 200 with an undecodable body a protocol     *)
(* error; in the three cases RecognizeCfg returns a non-nil error and no   *)
(* stream, the POST is not sent again and no poll is ever sent.            *)
(***************************************************************************)
C2_InitialClassification ==
    /\ [][ (HandlingInitial /\ resp.transport) =>
             /\ resp.StatusCode = 401 => err' = Error("unauthorized", 0)
             /\ resp.StatusCode \notin {200, 401} =>
                  err' = Error("non200", resp.StatusCode)
             /\ (resp.StatusCode = 200 /\ ~resp.decodable) =>
                  err' = Error("decode", 0)
             /\ (resp.StatusCode # 200 \/ ~resp.decodable) =>
                  /\ err' # Nil
                  /\ pc' = "returned"
                  /\ ~stream'
                  /\ gpc' = "none"
          ]_vars
    /\ [](err # Nil => (postCount <= 1 /\ pollCount = 0 /\ gpc = "none" /\ ~stream))
    /\ [][err # Nil => (err' = err /\ postCount' = postCount)]_vars

\* the initial exchange was answered with 401 and RecognizeCfg has returned
\* the Unauthorized error
C2_Witness ==
    /\ pc = "returned"
    /\ postCount = 1
    /\ err = Error("unauthorized", 0)

(***************************************************************************)
(* C3: synchronous mode.  With a 200 initial response without polling URL, *)
(* whatever the number of files, the pages sent on the stream are exactly  *)
(* one page with FileIndex 0, PageNumber 1, NumberOfPagesInFile 1 and an   *)
(* empty Error, the stream is then closed, and no poll is ever sent.       *)
(***************************************************************************)
C3_SynchronousMode ==
    Sync =>
      /\ pollCount = 0
      /\ gpc \in {"start", "syncclose", "done"}
      /\ Len(Pushed) <= 1
      /\ \A k \in 1..Len(Pushed) :
           /\ Pushed[k].Error = ""
           /\ Pushed[k].FileIndex = 0
           /\ Pushed[k].PageNumber = 1
           /\ Pushed[k].NumberOfPagesInFile = 1
           /\ Pushed[k].RecognizedText = either.RecognizedText
      /\ gpc # "start" => Len(Pushed) = 1
      /\ closed <=> gpc = "done"
      /\ eos => Len(received) = 1

\* two files were submitted, the consumer received the single page and then
\* observed end-of-stream
C3_Witness ==
    /\ Sync
    /\ Len(filePaths) = 2
    /\ Len(received) = 1
    /\ eos

(***************************************************************************)
(* C4: on every path on which the goroutine returns (synchronous emission, *)
(* Done, Failed by retry exhaustion, Failed by a poll 401) the stream has  *)
(* been closed exactly once; close is never called twice, nothing is sent  *)
(* on the stream after the close, and after observing end-of-stream the    *)
(* consumer receives nothing more.                                         *)
(***************************************************************************)
C4_ClosedExactlyOnce ==
    /\ [](/\ closeCalls <= 1
          /\ closed <=> closeCalls = 1
          /\ gpc = "done" => closed
          /\ eos => (closed /\ pagesChan = << >>))
    /\ [][closed => received' \o pagesChan' = Pushed]_vars
    /\ [][eos => (received' = received /\ eos')]_vars

\* the Done path: pages were delivered, the stream was closed once and the
\* consumer observed end-of-stream after the last page
C4_Witness ==
    /\ Async
    /\ gpc = "done"
    /\ closeCalls = 1
    /\ eos
    /\ Len(received) = MaxDecoded
    /\ errorCount = 0

(***************************************************************************)
(* C5: in asynchronous mode the stream is closed only when the completion  *)
(* check over the file indexes [0, len(filePaths)) has just returned true, *)
(* when a poll was answered with 401, or when the error counter has        *)
(* reached 5; hence a closed stream with an incomplete batch means that    *)
(* the last poll of the loop failed.                                       *)
(***************************************************************************)
C5_CloseReasons ==
    /\ [][ (Async /\ ~closed /\ closed') =>
             \/ /\ gpc = "range"
                /\ pages = << >>
                /\ AllFilesComplete(fileIndex2HaveSeenPage, Len(filePaths))
             \/ /\ HandlingPoll
                /\ resp.transport
                /\ resp.StatusCode = 401
             \/ errorCount' >= 5
          ]_vars
    /\ []((Async /\ closed /\ ~AllFilesComplete(fileIndex2HaveSeenPage, Len(filePaths)))
            => consecFails > 0)

\* the stream of a two-file batch was closed with no file complete because
\* the error counter reached 5
C5_Witness ==
    /\ Async
    /\ Len(filePaths) = 2
    /\ closed
    /\ ~AllFilesComplete(fileIndex2HaveSeenPage, Len(filePaths))
    /\ errorCount = 5
    /\ pollCount = 5

(***************************************************************************)
(* C6: retry budget.  Five consecutive failed polls (transport failure,    *)
(* status other than 200 and 401, undecodable body) make the loop close    *)
(* the stream and stop, and the loop never gives up on errors after fewer  *)
(* than five consecutive failed polls.                                     *)
(***************************************************************************)
C6_RetryBudget ==
    /\ []((Async /\ consecFails >= 5) => (closed /\ gpc = "done"))
    /\ [][ (/\ Async /\ ~closed /\ closed'
            /\ ~(gpc = "range" /\ pages = << >>)
            /\ ~(HandlingPoll /\ resp.transport /\ resp.StatusCode = 401))
           => consecFails' >= 5 ]_vars

(***************************************************************************)
(* C7: a poll answered with a status that is neither 200 nor 401           *)
(* increments the error counter by one, like a transport failure.          *)
(***************************************************************************)
C7_Non200Counted ==
    [][ (HandlingPoll /\ resp.transport /\ resp.StatusCode \notin {200, 401})
        => errorCount' = errorCount + 1 ]_vars

(***************************************************************************)
(* C8: a successful poll (status 200, decodable body) resets the error     *)
(* counter to 0, so the counter never exceeds the number of failed polls   *)
(* since the most recent successful poll (it would equal it if every       *)
(* failed poll were counted, see C7).                                      *)
(***************************************************************************)
C8_SuccessResets ==
    /\ [][ (HandlingPoll /\ PollSucceeded(resp)) => errorCount' = 0 ]_vars
    /\ [](Async => errorCount <= consecFails)

(***************************************************************************)
(* C9: a poll answered with 401 closes the stream at once and ends the     *)
(* loop, whatever the error counter: the step sends no page, leaves the    *)
(* counter alone, and no poll is sent after it.                            *)
(***************************************************************************)
C9_Poll401 ==
    /\ [][ (HandlingPoll /\ resp.transport /\ resp.StatusCode = 401) =>
             /\ ~closed /\ closed'
             /\ gpc' = "done"
             /\ received' \o pagesChan' = Pushed
             /\ errorCount' = errorCount
             /\ pollCount' = pollCount
          ]_vars
    /\ [][ gpc = "done" =>
             (gpc' = "done" /\ pollCount' = pollCount
              /\ received' \o pagesChan' = Pushed) ]_vars

\* after a batch of pages and with an error counter of 0, a poll answered
\* with 401 has closed the stream of an incomplete batch
C9_Witness ==
    /\ Async
    /\ gpc = "done"
    /\ closed
    /\ errorCount = 0
    /\ consecFails = 1
    /\ decoded # << >>
    /\ Pushed = decoded
    /\ ~AllFilesComplete(fileIndex2HaveSeenPage, Len(filePaths))

(***************************************************************************)
(* C10: every page with PageNumber <= 0 of a successfully decoded poll     *)
(* batch is sent on the stream, and observing it changes no completion     *)
(* slot of any file from false to true.                                    *)
(***************************************************************************)
C10_Placeholders ==
    /\ [][ (/\ gpc = "range" /\ pages # << >>
            /\ IsPlaceholder(Head(pages))
            /\ (gpc' # gpc \/ pages' # pages))
           => /\ pagesChan' = Append(pagesChan, Head(pages))
              /\ pages' = Tail(pages)
              /\ NoSlotFlipped ]_vars
    /\ [](gpc # "range" =>
            SelectSeq(Pushed, IsPlaceholder) = SelectSeq(decoded, IsPlaceholder))

(***************************************************************************)
(* C11: the completion check over len(filePaths) returns true if and only  *)
(* if every file index in [0, len(filePaths)) has a boolean sequence in    *)
(* the tracker and every entry of it is true; it returns false whenever    *)
(* some file index of that range has no sequence.  The loop closes the     *)
(* stream and stops exactly when the check returns true.                   *)
(***************************************************************************)
C11_CompletionCheck ==
    /\ [](\A n \in 0..Len(filePaths) :
            /\ HaveSeenEverything(fileIndex2HaveSeenPage, n)
                  <=> AllFilesComplete(fileIndex2HaveSeenPage, n)
            /\ (\E f \in 0..(n - 1) : f \notin DOMAIN fileIndex2HaveSeenPage)
                  => ~HaveSeenEverything(fileIndex2HaveSeenPage, n))
    /\ [][ CheckingCompletion =>
             IF AllFilesComplete(fileIndex2HaveSeenPage, Len(filePaths))
             THEN closed' /\ gpc' = "done"
             ELSE ~closed' /\ gpc' = "loop" ]_vars

\* two files were submitted, every page of file 0 has been seen, no page of
\* file 1 has: the check returned false and the loop goes on
C11_Witness ==
    /\ Async
    /\ Len(filePaths) = 2
    /\ gpc = "loop"
    /\ consecFails = 0
    /\ Pushed # << >>
    /\ DOMAIN fileIndex2HaveSeenPage = {0}
    /\ AllFilesComplete(fileIndex2HaveSeenPage, 1)
    /\ Len(fileIndex2HaveSeenPage[0]) > 0
    /\ ~closed

(***************************************************************************)
(* C12: when the completion check closes the stream, for every file index  *)
(* f in [0, len(filePaths)) and every k from 1 to the size of f's boolean  *)
(* sequence, a page of file f numbered k has been sent on the stream       *)
(* before the close.                                                       *)
(***************************************************************************)
C12_DoneAfterLastPage ==
    [][ (CheckingCompletion /\ closed') =>
          \A f \in 0..(Len(filePaths) - 1) :
            /\ f \in DOMAIN fileIndex2HaveSeenPage
            /\ \A k \in 1..Len(fileIndex2HaveSeenPage[f]) : HasPage(Pushed, f, k)
      ]_vars

\* a two-page file whose pages came in two polls: the stream was closed
\* after the second
C12_Witness ==
    /\ Async
    /\ Len(filePaths) = 1
    /\ gpc = "done"
    /\ closed
    /\ consecFails = 0
    /\ pollCount = 2
    /\ 0 \in DOMAIN fileIndex2HaveSeenPage
    /\ Len(fileIndex2HaveSeenPage[0]) = 2
    /\ Len(Pushed) = 2
    /\ Pushed[2].PageNumber = 1

(***************************************************************************)
(* C13: in asynchronous mode the pages sent on the stream, and so the      *)
(* pages the consumer receives, are at any time an initial segment of the  *)
(* concatenation, in poll order, of the successfully decoded batches, each *)
(* batch in the order of the response; when the consumer observes          *)
(* end-of-stream it has received the whole concatenation.                  *)
(***************************************************************************)
C13_ArrivalOrder ==
    Async =>
      /\ IsPrefix(Pushed, decoded)
      /\ IsPrefix(received, decoded)
      /\ Pushed \o pages = decoded
      /\ eos => received = decoded

\* two polls, a page of file 1 before a page of file 0: the consumer
\* received them in that order and then end-of-stream
C13_Witness ==
    /\ Async
    /\ eos
    /\ pollCount = 2
    /\ Len(received) = 2
    /\ received[1].FileIndex = 1
    /\ received[2].FileIndex = 0
    /\ received = decoded

(***************************************************************************)
(* C14: every page of a successfully decoded batch is observed and then    *)
(* sent on the stream, once, before the completion check of that poll:     *)
(* each iteration of the range loop observes and sends the page it is at,  *)
(* and once the range loop is left every decoded page has been sent.       *)
(***************************************************************************)
C14_EveryPagePushed ==
    /\ [][ (gpc = "range" /\ pages # << >> /\ (gpc' # gpc \/ pages' # pages)) =>
             /\ pagesChan' = Append(pagesChan, Head(pages))
             /\ pages' = Tail(pages)
             /\ gpc' = "range" ]_vars
    /\ []((Async /\ gpc # "range") => Pushed = decoded)

(***************************************************************************)
(* C16: at most one poll is in flight.  A GET is sent only from the head   *)
(* of the loop, when no answer is pending and the previous answer has been *)
(* handled completely: all its pages sent, its completion check done; and  *)
(* while a GET is in flight nothing of an earlier batch is left to send.   *)
(***************************************************************************)
C16_SequentialPolls ==
    /\ [][ pollCount' # pollCount =>
             /\ pollCount' = pollCount + 1
             /\ gpc = "loop" /\ gpc' = "poll"
             /\ resp = NoResponse
             /\ pages = << >>
             /\ Pushed = decoded
             /\ ~closed ]_vars
    /\ [](gpc = "poll" => (pages = << >> /\ Pushed = decoded /\ ~closed))
    /\ [](resp # NoResponse => (pc = "post" \/ gpc = "poll"))

\* the second poll is in flight after the page of the first was sent and the
\* completion check found the batch incomplete
C16_Witness ==
    /\ Async
    /\ gpc = "poll"
    /\ pollCount = 2
    /\ resp # NoResponse
    /\ Len(Pushed) = 1
    /\ ~AllFilesComplete(fileIndex2HaveSeenPage, Len(filePaths))

(***************************************************************************)
(* C17: fail fast.  If the MIME type of some submitted path cannot be      *)
(* inferred, or reading a file fails, RecognizeCfg returns an error and no *)
(* network request is ever issued: neither the initial POST nor a poll.    *)
(***************************************************************************)
C17_FailFast ==
    /\ (\E i \in 1..Len(filePaths) : filePaths[i] \in UnknownTypePaths) =>
         /\ postCount = 0
         /\ pollCount = 0
         /\ resp = NoResponse
         /\ ~stream
         /\ gpc = "none"
         /\ pc = "returned" => err = Error("mime", 0)
    /\ err.kind \in {"mime", "read"} =>
         /\ pc = "returned"
         /\ postCount = 0
         /\ pollCount = 0
         /\ resp = NoResponse
         /\ ~stream
         /\ gpc = "none"

\* the first path is fine and the second is too short: the call returned
\* the MIME error and nothing was sent
C17_Witness ==
    /\ pc = "returned"
    /\ Len(filePaths) = 2
    /\ InferMimeType(filePaths[1]) # ""
    /\ Len(filePaths[2]) < 4
    /\ err = Error("mime", 0)
    /\ postCount = 0

(***************************************************************************)
(* C20: end-to-end page count.  While no poll has failed and the server    *)
(* has returned only pages of the submitted files, each at most once and   *)
(* without error placeholders: the stream is closed only when every page   *)
(* of every file has been returned, it has then carried exactly the sum    *)
(* over the files of NumberOfPagesInFile pages and the batch is complete;  *)
(* the consumer has received that many pages at end-of-stream; and once    *)
(* the poll that returned the last page has been handled, the stream is    *)
(* closed.  (No poll has failed: the last poll succeeded and no error was  *)
(* counted, which every run without a failed poll satisfies.)              *)
(***************************************************************************)
C20_PageCount ==
    (/\ Async
     /\ errorCount = 0
     /\ consecFails = 0
     /\ EachPageAtMostOnce(decoded, Len(filePaths)))
    =>
      /\ closed =>
           /\ HasEveryPage(decoded, Len(filePaths))
           /\ Len(Pushed) = SumOfDeclaredPages(decoded, 0, Len(filePaths))
           /\ AllFilesComplete(fileIndex2HaveSeenPage, Len(filePaths))
      /\ eos => Len(received) = SumOfDeclaredPages(decoded, 0, Len(filePaths))
      /\ (/\ HasEveryPage(decoded, Len(filePaths))
          /\ pollCount > 0
          /\ gpc \notin {"poll", "range"}) => (closed /\ gpc = "done")

\* two single-page files, one poll answered with both pages: the consumer
\* received exactly 2 pages and then end-of-stream
C20_Witness ==
    /\ Async
    /\ Len(filePaths) = 2
    /\ pollCount = 1
    /\ errorCount = 0
    /\ consecFails = 0
    /\ EachPageAtMostOnce(decoded, 2)
    /\ HasEveryPage(decoded, 2)
    /\ eos
    /\ Len(received) = 2
    /\ AllFilesComplete(fileIndex2HaveSeenPage, 2)

(***************************************************************************)
(* C18: MIME inference in the Recognize entry points depends only on the   *)
(* end of the file name and not on its letter case: a path ending, in any  *)
(* case, in .bmp, .gif, .pdf, .png, .jpg or .jpeg gets image/bmp,          *)
(* image/gif, application/pdf, image/png, image/jpg or image/jpeg, every   *)
(* other path fails, and paths that differ only in the case of the suffix  *)
(* get the same result.                                                    *)
(***************************************************************************)
C18_MimeCaseInsensitive ==
    pc # "call" =>
      LET fp == filePaths[1] IN
      IF TableMimeType(fp) = ""
      THEN pc = "returned" /\ err = Error("mime", 0)
      ELSE pc = "read" /\ err = Nil /\ sr = <<[MimeType |-> TableMimeType(fp)]>>

(***************************************************************************)
(* C15: backpressure.  The channel never holds more than 16 pages.  When   *)
(* it holds 16 and the goroutine has a page to send, the goroutine does    *)
(* not move until the consumer has received a page: no poll is sent, the   *)
(* page stays the next one to send, and the only step is a receive.  No    *)
(* page is lost: the pages sent and the pages still to send are the pages  *)
(* decoded.                                                                *)
(***************************************************************************)
C15_Backpressure ==
    /\ [](Len(pagesChan) <= ChanCapacity)
    /\ [][ ProducerBlocked =>
             /\ gpc' = gpc
             /\ pages' = pages
             /\ pollCount' = pollCount
             /\ resp' = resp
             /\ decoded' = decoded
             /\ received' = Append(received, Head(pagesChan))
             /\ pagesChan' = Tail(pagesChan) ]_vars
    /\ [](Async => Pushed \o pages = decoded)

\* 17 pages were decoded from one poll: the goroutine waited with the 17th
\* until the consumer received the first page, then sent it, and the
\* channel is full again
C15_Witness ==
    /\ Async
    /\ pollCount = 1
    /\ Len(decoded) = ChanCapacity + 1
    /\ Len(received) = 1
    /\ Len(pagesChan) = ChanCapacity
    /\ pages = << >>

(***************************************************************************)
(* C19: liveness.  In asynchronous mode, with a fairly scheduled goroutine *)
(* and a consumer that keeps receiving, once every poll has succeeded and  *)
(* the server has returned every page 1..n of every submitted file, with   *)
(* one n per file, the loop eventually reaches Done and the stream is      *)
(* eventually closed.                                                      *)
(***************************************************************************)
C19_EventuallyDone ==
    ServerReturnedEverything ~> (gpc = "done" /\ closed)

\* two files; the pages of the second poll completed the batch, the stream
\* was closed and the consumer saw its end
C19_Witness ==
    /\ ServerReturnedEverything
    /\ Len(filePaths) = 2
    /\ pollCount = 2
    /\ Len(decoded) = 2
    /\ gpc = "done"
    /\ closed
    /\ eos

(***************************************************************************)
(* C21: in asynchronous mode the k-th item the consumer receives is the    *)
(* k-th page of the successfully decoded poll responses, all fields        *)
(* unchanged: nothing is sent that the server did not return, a failed     *)
(* poll sends nothing, and after a loop that failed the consumer has       *)
(* received pages of the server only, followed by end-of-stream.           *)
(***************************************************************************)
C21_RelayedVerbatim ==
    Async =>
      /\ Len(Pushed) <= Len(decoded)
      /\ \A k \in 1..Len(Pushed) :
           /\ Pushed[k] \in ServerPages
           /\ Pushed[k] = decoded[k]
      /\ (closed /\ consecFails > 0) => Pushed = decoded

\* the loop failed on a 401 after one page: the consumer received that page
\* and then end-of-stream
C21_Witness ==
    /\ Async
    /\ eos
    /\ consecFails = 1
    /\ errorCount = 0
    /\ Len(received) = 1
    /\ received = decoded
    /\ ~AllFilesComplete(fileIndex2HaveSeenPage, Len(filePaths))

(***************************************************************************)
(* C23: the completion check is idempotent.  The step that evaluates it    *)
(* changes neither the tracker, nor the error counter, nor the pages in    *)
(* the stream; and evaluated again on the tracker it left, it gives the    *)
(* result it gave: false while the loop goes on after a successful poll,   *)
(* true once the loop has stopped on it.                                   *)
(***************************************************************************)
C23_CheckIdempotent ==
    /\ [][ CheckingCompletion =>
             /\ fileIndex2HaveSeenPage' = fileIndex2HaveSeenPage
             /\ errorCount' = errorCount
             /\ pagesChan' = pagesChan
             /\ received' = received
             /\ (closed' <=>
                   HaveSeenEverything(fileIndex2HaveSeenPage', Len(filePaths))) ]_vars
    /\ []((Async /\ pollCount > 0 /\ consecFails = 0 /\ gpc = "loop")
            => ~HaveSeenEverything(fileIndex2HaveSeenPage, Len(filePaths)))
    /\ []((Async /\ gpc = "done" /\ consecFails = 0)
            => HaveSeenEverything(fileIndex2HaveSeenPage, Len(filePaths)))

\* the check ran twice on the same tracker, the second time after an empty
\* batch, and found the batch incomplete both times
C23_Witness ==
    /\ Async
    /\ pollCount = 2
    /\ consecFails = 0
    /\ gpc = "loop"
    /\ Len(decoded) = 1
    /\ Len(filePaths) = 2
    /\ DOMAIN fileIndex2HaveSeenPage = {1}
    /\ ~closed

(***************************************************************************)
(* C24: a failed poll that does not end the loop (transport failure,       *)
(* status other than 200 and 401, undecodable body, request that cannot be *)
(* built, below the threshold) leaves the tracker and the contents of the  *)
(* stream unchanged: no page is observed or sent, the completion check     *)
(* does not run and the loop goes back to its head; only the error counter *)
(* may change.                                                             *)
(***************************************************************************)
C24_FailedPollFrame ==
    [][ (/\ \/ HandlingPoll /\ ~PollSucceeded(resp)
            \/ gpc = "loop" /\ errorCount' # errorCount
         /\ ~closed') =>
          /\ fileIndex2HaveSeenPage' = fileIndex2HaveSeenPage
          /\ pagesChan' = pagesChan
          /\ received' = received
          /\ pages' = pages
          /\ decoded' = decoded
          /\ gpc' = "loop"
          /\ errorCount' \in {errorCount, errorCount + 1} ]_vars

\* after a poll that returned a page, a poll failed: the tracker and the
\* stream are as the first poll left them and the loop goes on
C24_Witness ==
    /\ Async
    /\ gpc = "loop"
    /\ pollCount = 2
    /\ consecFails = 1
    /\ errorCount = 1
    /\ ~closed
    /\ Len(Pushed) = 1
    /\ Pushed = decoded
    /\ DOMAIN fileIndex2HaveSeenPage # {}

(***************************************************************************)
(* C22: observe allocates the boolean sequence of a file index, with the   *)
(* NumberOfPagesInFile of the page observed as its size, only when the     *)
(* file index has no sequence yet; once a file index has a sequence, no    *)
(* later observe replaces it or changes its size.                          *)
(***************************************************************************)
C22_AllocatedOnce ==
    [][ \A f \in DOMAIN fileIndex2HaveSeenPage :
          /\ f \in DOMAIN fileIndex2HaveSeenPage'
          /\ Len(fileIndex2HaveSeenPage'[f]) = Len(fileIndex2HaveSeenPage[f]) ]_vars

(***************************************************************************)
(* C22 as amended: observe allocates the boolean sequence of a file index, *)
(* with the NumberOfPagesInFile of the page observed as its size, only     *)
(* when the file index has no sequence yet or an empty one; once a file    *)
(* index has a non-empty sequence, no later observe replaces it or changes *)
(* its size, and the sequences of the other file indexes stay as they are. *)
(***************************************************************************)
C22_AllocatedWhenAbsentOrEmpty ==
    [][ Observing =>
          \A f \in DOMAIN fileIndex2HaveSeenPage' :
            IF f = Head(pages).FileIndex /\ ~HasSlots(fileIndex2HaveSeenPage, f)
            THEN Len(fileIndex2HaveSeenPage'[f]) = Head(pages).NumberOfPagesInFile
            ELSE /\ f \in DOMAIN fileIndex2HaveSeenPage
                 /\ Len(fileIndex2HaveSeenPage'[f]) = Len(fileIndex2HaveSeenPage[f])
                 /\ f # Head(pages).FileIndex =>
                      fileIndex2HaveSeenPage'[f] = fileIndex2HaveSeenPage[f]
      ]_vars
    /\ [][ ~Observing => fileIndex2HaveSeenPage' = fileIndex2HaveSeenPage ]_vars

\* file 0 got an empty sequence from a placeholder of a file of 0 pages,
\* then a sequence of 2 slots from its page 1 of 2; a later page of the
\* file could not change the size
C22_Witness ==
    /\ Async
    /\ Len(decoded) = 2
    /\ Pushed = decoded
    /\ decoded[1].FileIndex = 0
    /\ decoded[1].NumberOfPagesInFile = 0
    /\ decoded[2].FileIndex = 0
    /\ decoded[2].NumberOfPagesInFile = 2
    /\ decoded[2].PageNumber = 1
    /\ fileIndex2HaveSeenPage[0] = <<TRUE, FALSE>>

(***************************************************************************)
(* C25: observe never accesses a slot outside the boolean sequence of the  *)
(* file: for every page with PageNumber > 0 of a decoded poll response,    *)
(* PageNumber-1 is a valid index of the sequence of its file index when it *)
(* is marked, whatever PageNumber and NumberOfPagesInFile the server       *)
(* sends; the goroutine never panics.                                      *)
(***************************************************************************)
C25_NoFault ==
    /\ gpc # "panic"
    /\ (gpc = "range" /\ pages # << >>) =>
         ~ObserveFaults(fileIndex2HaveSeenPage, Head(pages))

(***************************************************************************)
(* C26: tracker progress is monotonic: a slot that is true is never false  *)
(* or gone later, and a file index that has a sequence whose entries are   *)
(* all true still has one after every later observe.                       *)
(***************************************************************************)
C26_Monotonic ==
    [][ /\ SlotsKept(fileIndex2HaveSeenPage, fileIndex2HaveSeenPage')
        /\ \A f \in FileIndexes :
             FileComplete(fileIndex2HaveSeenPage, f)
               => FileComplete(fileIndex2HaveSeenPage', f) ]_vars

(***************************************************************************)
(* C26 as amended: a slot that is true is never false or gone later, and a *)
(* file index that has a non-empty sequence whose entries are all true     *)
(* still has one after every later observe.  (An empty sequence, which     *)
(* counts as complete, is replaced by the next page of its file.)          *)
(***************************************************************************)
C26_MonotonicNonEmpty ==
    [][ /\ SlotsKept(fileIndex2HaveSeenPage, fileIndex2HaveSeenPage')
        /\ \A f \in FileIndexes :
             (HasSlots(fileIndex2HaveSeenPage, f)
              /\ FileComplete(fileIndex2HaveSeenPage, f))
               => (HasSlots(fileIndex2HaveSeenPage', f)
                   /\ FileComplete(fileIndex2HaveSeenPage', f)) ]_vars

\* file 0 of two files was complete and its page came a second time: it is
\* still complete
C26_Witness ==
    /\ Async
    /\ Len(filePaths) = 2
    /\ Len(decoded) = 2
    /\ Pushed = decoded
    /\ decoded[1] = decoded[2]
    /\ decoded[1].FileIndex = 0
    /\ decoded[1].PageNumber = 1
    /\ fileIndex2HaveSeenPage[0] = <<TRUE>>

(***************************************************************************)
(* C27: a file whose only observed pages are error placeholders is counted *)
(* as complete exactly when those placeholders declare NumberOfPagesInFile *)
(* = 0, and never when the first of them declares NumberOfPagesInFile > 0; *)
(* hence once a poll batch with one zero-page placeholder per submitted    *)
(* file has been ranged over and checked, the stream is closed as Done     *)
(* although no real page was delivered.                                    *)
(***************************************************************************)
C27_PlaceholdersOnly ==
    []( (Async /\ decoded # << >>) =>
          LET pushed == Pushed IN
          /\ \A f \in FileIndexes :
               OnlyPlaceholders(pushed, f) =>
                 /\ CountedComplete(fileIndex2HaveSeenPage, f)
                      <=> \A k \in PagesOf(pushed, f) :
                            pushed[k].NumberOfPagesInFile = 0
                 /\ FirstOf(pushed, f).NumberOfPagesInFile > 0
                      => ~CountedComplete(fileIndex2HaveSeenPage, f)
          /\ ( /\ Len(filePaths) > 0
               /\ pushed = decoded
               /\ \A k \in 1..Len(pushed) : pushed[k].NumberOfPagesInFile = 0
               /\ \A f \in 0..(Len(filePaths) - 1) : OnlyPlaceholders(pushed, f)
               /\ ~(gpc = "range" /\ pages = << >>) )
              => (gpc = "done" /\ closed /\ closeCalls = 1) )

\* two files, one batch of two placeholders of files of 0 pages: the
\* consumer got the two placeholders and then end-of-stream, with no failed
\* poll
C27_Witness ==
    /\ Async
    /\ Len(filePaths) = 2
    /\ Len(decoded) = 2
    /\ received = decoded
    /\ decoded[1].FileIndex = 0
    /\ decoded[2].FileIndex = 1
    /\ \A k \in 1..2 : IsPlaceholder(decoded[k])
                        /\ decoded[k].NumberOfPagesInFile = 0
    /\ errorCount = 0
    /\ gpc = "done"
    /\ eos

(***************************************************************************)
(* C28: a page whose FileIndex is outside [0, len(filePaths)) is sent on   *)
(* the channel like any other page, and observing it does not change what  *)
(* the completion check answers; the answer of the check depends only on   *)
(* the sequences of the file indexes 0..len(filePaths)-1.                  *)
(***************************************************************************)
C28_OutsideIgnored ==
    /\ [][ ( /\ Observing
             /\ Head(pages).FileIndex \notin 0..(Len(filePaths) - 1) )
           => /\ pagesChan' = Append(pagesChan, Head(pages))
              /\ Restrict(fileIndex2HaveSeenPage', Len(filePaths))
                   = Restrict(fileIndex2HaveSeenPage, Len(filePaths))
              /\ HaveSeenEverything(fileIndex2HaveSeenPage', Len(filePaths))
                   <=> HaveSeenEverything(fileIndex2HaveSeenPage, Len(filePaths))
       ]_vars
    /\ [](HaveSeenEverything(fileIndex2HaveSeenPage, Len(filePaths))
            <=> HaveSeenEverything(Restrict(fileIndex2HaveSeenPage, Len(filePaths)),
                                   Len(filePaths)))

\* one file submitted; its page and a page of file index 1 came in one
\* batch: both were sent, and the stream was closed as Done although the
\* sequence of file index 1 is not complete
C28_Witness ==
    /\ Async
    /\ Len(filePaths) = 1
    /\ Len(decoded) = 2
    /\ received = decoded
    /\ decoded[1].FileIndex = 1
    /\ decoded[2].FileIndex = 0
    /\ fileIndex2HaveSeenPage[1] = <<TRUE, FALSE>>
    /\ fileIndex2HaveSeenPage[0] = <<TRUE>>
    /\ gpc = "done"
    /\ eos

(***************************************************************************)
(* C29: the tracker of the command-line consumer is a replica of the       *)
(* tracker of the library: on every sequence of pages that the polling     *)
(* loop observed without panic and sent, the consumer's loop does not      *)
(* panic, and after each page received it holds for the file index of that *)
(* page the boolean sequence that the library held after observing it.     *)
(***************************************************************************)
C29_Replica ==
    Async =>
      /\ ~cliPanicked
      /\ received # << >> =>
           LET page == received[Len(received)] IN
           IF page.FileIndex \in DOMAIN cliFileIndex2HaveSeenPage
           THEN cliFileIndex2HaveSeenPage[page.FileIndex]
                  = TrackerAfter(received)[page.FileIndex]
           ELSE FALSE

(***************************************************************************)
(* C30: numFilesComplete of the command-line consumer counts each input    *)
(* file at most once: it never exceeds the number of input files, and it   *)
(* equals that number when the consumer has read to the end of a stream    *)
(* that the polling loop closed because every file was complete.           *)
(***************************************************************************)
C30_CountedOnce ==
    /\ numFilesComplete <= Len(filePaths)
    /\ ( /\ Async
         /\ eos
         /\ ~cliPanicked
         /\ gpc = "done"
         /\ consecFails = 0 )
        => numFilesComplete = Len(filePaths)

====
